---- MODULE Spec2Model ----
(***************************************************************************)
(* The frame pipeline and continuation state machine of                    *)
(* vizia_winit::Application::run (crates/vizia_winit/src/application.rs).  *)
(*                                                                         *)
(* The closure handed to event_loop.run is called by the host loop once    *)
(* per host event.  Every arm of its match is one atomic action, except    *)
(* the MainEventsCleared arm, which is split into its stages so that the   *)
(* state between two stages can be named (pc).  Every arm ends in line 510 *)
(* `*control_flow = *stored_control_flow.borrow()`.                        *)
(***************************************************************************)
EXTENDS Naturals, Sequences, FiniteSets

\* ---------------------------------------------------------------- bounds
\* events a cross-thread sender may have pending in the loop proxy
MaxChan == 1
\* length up to which host input may still be appended to the event queue
MaxQueue == 2
\* events one reaction (handlers of one flush, data propagation, idle hook) may enqueue
MaxEmit == 1
\* animations that may be active at once
MaxAnim == 1
\* the per-iteration count of need_redraw() calls saturates here
MaxInval == 2
\* accessibility tree updates one process_tree_updates call may produce
MaxTree == 1

\* physical window sizes and scale factors the host may report
PhysSizes == {<<800, 600>>, <<801, 601>>}
ScaleFactors == {1, 2}

VARIABLES
    default_should_poll,  \* Application.should_poll, read at line 223
    on_idle,              \* TRUE iff an idle callback was registered
    handlers,             \* how the application's code behaves
    display,              \* what the host may report: physical sizes, scale factors, input events
    stored_control_flow,  \* the RefCell of line 224
    control_flow,         \* the value last written to *control_flow (line 510)
    host_exit,            \* the host loop has been handed Exit (sticky in winit)
    event_queue,          \* the context's event queue
    proxy_channel,        \* user events sent through an EventLoopProxy, not yet delivered
    animations,           \* number of active animations
    needs_restyle, needs_relayout, needs_redraw,
    redraw_pending,       \* window.request_redraw() called, RedrawRequested not yet delivered
    pc,                   \* position of the loop thread
    host,                 \* phase of the host loop's cycle
    proxy_pending,        \* cross-thread events sent and not yet dispatched
    sent_in_wait,         \* a cross-thread event was sent while the loop was blocked
    iter,                 \* observations of the current iteration
    tree_updates,         \* cx.tree_updates: the updates the adapter has yet to get
    dpi_factor,           \* cx.style().dpi_factor
    style_size,           \* style width and height of Entity::root(), in logical pixels
    cache_size,           \* cached width and height of Entity::root()
    clip_region,          \* w and h of the cached clip region of Entity::root()
    startup,              \* "none", "handed" (a callback has returned), "iterated"
                          \* (the first MainEventsCleared has been delivered)
    dispatch_log,         \* the events the latest flush_events call dispatched, in order
    iteration_mode        \* stored_control_flow at the end of the latest iteration
                          \* (its initial value before any iteration)

cfg == <<default_should_poll, on_idle, handlers, display>>
flags == <<needs_restyle, needs_relayout, needs_redraw>>
geom == <<dpi_factor, style_size, cache_size, clip_region>>
vars == <<default_should_poll, on_idle, handlers, display, stored_control_flow,
          control_flow, host_exit, event_queue, proxy_channel, animations,
          needs_restyle, needs_relayout, needs_redraw, redraw_pending, pc, host,
          proxy_pending, sent_in_wait, iter, tree_updates, dpi_factor, style_size,
          cache_size, clip_region, startup, dispatch_log, iteration_mode>>

ControlFlow == {"Poll", "Wait", "Exit"}

\* payload kinds of the events in the queue
EventKinds == {"MouseMove", "KeyDown", "proxy", "Redraw", "unit", "emit",
               "ActionRequest", "FocusOut", "FocusIn"}

\* the window events the input arms of lines 378-460 emit, two of them
InputEvents == {"MouseMove", "KeyDown"}

\* the stages of one iteration, in the order of lines 283-334
StageOrder == <<"flush", "data", "tree", "style", "anim", "visual", "arbiter", "idle", "cont">>

RECURSIVE Count(_, _)
Count(k, s) == IF s = <<>> THEN 0 ELSE (IF Head(s) = k THEN 1 ELSE 0) + Count(k, Tail(s))

Has(k, s) == \E i \in 1..Len(s) : s[i] = k

\* s is an initial part of t
IsPrefix(s, t) == Len(s) <= Len(t) /\ SubSeq(t, 1, Len(s)) = s

Min(a, b) == IF a < b THEN a ELSE b

\* what the iteration has done so far; reset when MainEventsCleared is handled
IterStart ==
    [trace |-> <<>>,          \* stages run so far
     flush_ret |-> TRUE,      \* what the last flush_events call returned
     flushed_proxy |-> FALSE, \* the flush loop dispatched a cross-thread event
     prev |-> "Poll",         \* stored_control_flow when the iteration began
     anim_active |-> FALSE,   \* has_animations() was true at line 295
     redraw_anim |-> 0,       \* request_redraw calls of line 304
     redraw_arbiter |-> 0,    \* request_redraw calls of line 316
     redraw_posted |-> 0,     \* WindowEvent::Redraw posts of line 298
     wake_posted |-> 0,       \* unit-event posts of line 331
     invalidations |-> 0,     \* need_redraw() calls, saturating at MaxInval
     idle_calls |-> 0,        \* invocations of the idle callback
     idle_emitted |-> 0]      \* events the idle callback enqueued

\* a stage is noted each time it runs; consecutive flush_events calls are noted once
Mark(stage) ==
    IF stage = "flush" /\ iter.trace # <<>> /\ iter.trace[Len(iter.trace)] = "flush"
    THEN iter.trace
    ELSE Append(iter.trace, stage)

\* ------------------------------------------------ reactions of user code
\* What handlers, bindings or the idle callback may do with the context:
\* enqueue events, raise invalidation flags, start an animation.
EmitSeqs == {<<>>} \cup {[i \in 1..n |-> "emit"] : n \in 1..MaxEmit}

Reactions ==
    [emit : EmitSeqs, inv : SUBSET {"restyle", "relayout", "redraw"}, anim : BOOLEAN]

\* need_restyle / need_relayout / need_redraw: setting is idempotent
Raise(r, forced) ==
    /\ needs_restyle' = (needs_restyle \/ "restyle" \in r.inv)
    /\ needs_relayout' = (needs_relayout \/ "relayout" \in r.inv)
    /\ needs_redraw' = (needs_redraw \/ "redraw" \in r.inv \/ forced)

Invalidated(r, forced) ==
    Min(iter.invalidations + (IF "redraw" \in r.inv \/ forced THEN 1 ELSE 0), MaxInval)

\* application code that leaves the context alone
Quiet == [emit |-> <<>>, inv |-> {}, anim |-> FALSE]

\* application code that has settled: it may still invalidate, but it enqueues
\* no event and starts no animation
Settled == {r \in Reactions : r.emit = <<>> /\ ~r.anim}

\* what bindings, the style and layout systems and the idle callback may do:
\* anything; or nothing when the application is "static"; or, "settling",
\* anything while an animation runs and what settled code does afterwards
UserReactions ==
    CASE handlers = "static" -> {Quiet}
      [] handlers = "settling" -> IF animations > 0 THEN Reactions ELSE Settled
      [] OTHER -> Reactions

\* what the handlers of one flush_events call may do: anything; or nothing
\* ("static"); or what settling code does ("settling"); or, "well_behaved", anything but enqueue again while handling
\* an event that a handler enqueued; or, "insatiable", enqueue on every call
HandlerReactions ==
    CASE handlers = "static" -> {Quiet}
      [] handlers = "settling" -> IF animations > 0 THEN Reactions ELSE Settled
      [] handlers = "well_behaved" ->
            {r \in Reactions : r.emit = <<>> \/ \E i \in 1..Len(event_queue) :
                                                  event_queue[i] # "emit"}
      [] handlers = "insatiable" -> {r \in Reactions : r.emit # <<>>}
      [] OTHER -> Reactions

StartAnim(r) == IF r.anim /\ animations < MaxAnim THEN animations + 1 ELSE animations

has_animations == animations > 0

has_queued_events == event_queue # <<>>

\* Context::send_event / emit_origin: append to the event queue
send_event(e) == event_queue' = Append(event_queue, e)

\* PhysicalSize::to_logical: each dimension divided by the scale factor, as an
\* exact fraction <<numerator, denominator>> in lowest terms
RECURSIVE GCD(_, _)
GCD(a, b) == IF b = 0 THEN a ELSE GCD(b, a % b)

Fraction(n, d) == <<n \div GCD(n, d), d \div GCD(n, d)>>

to_logical(size, scale) == <<Fraction(size[1], scale), Fraction(size[2], scale)>>

\* line 510, and the host's sticky Exit
Return510 ==
    /\ control_flow' = stored_control_flow'
    /\ host_exit' = (host_exit \/ stored_control_flow' = "Exit")
    /\ startup' = IF startup = "none" THEN "handed" ELSE startup

\* the host reports one size and one scale factor, or any of them
FixedDisplay == [sizes |-> {<<800, 600>>}, scales |-> {1}, inputs |-> {"KeyDown"}]
AnyDisplay == [sizes |-> PhysSizes, scales |-> ScaleFactors, inputs |-> {"KeyDown"}]

\* the host reports one size and one scale factor, and input of either kind
AnyInput == [sizes |-> {<<800, 600>>}, scales |-> {1}, inputs |-> InputEvents]

\* the state when event_loop.run is entered (lines 153-227), for application
\* code of the given kind and a host that reports the sizes and scales shown
Started(kind, shown) ==
    /\ default_should_poll \in BOOLEAN
    /\ on_idle \in BOOLEAN
    /\ handlers = kind
    /\ display = shown
    /\ stored_control_flow = "Poll"
    /\ control_flow = "Poll"
    /\ host_exit = FALSE
    /\ event_queue \in EmitSeqs
    /\ proxy_channel = <<>>
    /\ animations \in 0..MaxAnim
    /\ needs_restyle \in BOOLEAN
    /\ needs_relayout \in BOOLEAN
    /\ needs_redraw \in BOOLEAN
    /\ redraw_pending = FALSE
    /\ pc = "host"
    /\ host = "events"
    /\ proxy_pending = 0
    /\ sent_in_wait = FALSE
    /\ iter = IterStart
    /\ tree_updates = 0
    /\ dpi_factor \in shown.scales
    /\ cache_size \in shown.sizes
    /\ style_size = to_logical(cache_size, dpi_factor)
    /\ clip_region = cache_size
    /\ startup = "none"
    /\ dispatch_log = <<>>
    /\ iteration_mode = "Poll"

Init == Started("any", FixedDisplay)

\* ------------------------------------------- the host loop and its events
\* The host loop runs in cycles: it delivers the pending window and user
\* events ("events"), then MainEventsCleared, then the requested redraws
\* ("redraw"), and then polls, blocks or exits as the control flow says.

\* WinitEventProxy::send from another thread (lines 59-66): send_event hands
\* the event to the loop, or fails, and then the error is mapped to Err(())
\* and nothing else happens
ProxySend ==
    /\ pc # "panicked" /\ host # "exited"
    /\ proxy_pending < MaxChan
    /\ \E sent \in BOOLEAN :
         IF sent
         THEN /\ proxy_channel' = Append(proxy_channel, "proxy")
              /\ proxy_pending' = proxy_pending + 1
              /\ sent_in_wait' = (sent_in_wait \/ host = "blocked")
         ELSE UNCHANGED <<proxy_channel, proxy_pending, sent_in_wait>>
    /\ UNCHANGED <<cfg, iteration_mode, geom, stored_control_flow, control_flow, host_exit, startup,
                   event_queue, dispatch_log, animations, flags,
                   tree_updates, redraw_pending, pc, host, iter>>

\* a proxy message or an OS event ends the wait
HostWake ==
    /\ pc = "host" /\ host = "blocked"
    /\ host' = "events"
    /\ UNCHANGED <<cfg, iteration_mode, geom, stored_control_flow, control_flow, host_exit, startup,
                   event_queue, dispatch_log, proxy_channel, animations,
                   flags, tree_updates, redraw_pending, pc, proxy_pending,
                   sent_in_wait, iter>>

\* HostUserEvent with the event taken from the proxy and never sent on
HostUserEvent_drop ==
    /\ pc = "host" /\ host = "events"
    /\ proxy_channel # <<>>
    /\ proxy_channel' = Tail(proxy_channel)
    /\ UNCHANGED stored_control_flow
    /\ Return510
    /\ UNCHANGED <<cfg, iteration_mode, geom, event_queue, dispatch_log, animations, flags,
                   tree_updates, redraw_pending, pc, host, proxy_pending,
                   sent_in_wait, iter>>

\* Event::UserEvent(UserEvent::Event(event)) => cx.send_event(event)
HostUserEvent ==
    /\ pc = "host" /\ host = "events"
    /\ proxy_channel # <<>>
    /\ send_event(Head(proxy_channel))
    /\ proxy_channel' = Tail(proxy_channel)
    /\ UNCHANGED stored_control_flow
    /\ Return510
    /\ UNCHANGED <<cfg, iteration_mode, geom, dispatch_log, animations, flags, tree_updates,
                   redraw_pending, pc, host, proxy_pending, sent_in_wait, iter>>

\* what cx.focus() does with the target of a focus request: the focus
\* "moved" to it from another entity, it is the "same" entity that had the
\* focus, or the call is a "noop"
FocusOutcomes == {"moved", "same", "noop"}

\* EventContext::focus: FocusOut and FocusIn are enqueued when the focus
\* moves, and the style is invalidated when the call takes effect
focus_events(outcome) == IF outcome = "moved" THEN <<"FocusOut", "FocusIn">> ELSE <<>>

focus_restyles(outcome) == outcome # "noop"

\* Event::UserEvent(UserEvent::AccessKitActionRequest(..)): on Action::Focus
\* cx.focus() is called on the target (lines 250-258); then the
\* ActionRequest is sent (lines 261-266)
HostActionRequest ==
    /\ pc = "host" /\ host = "events"
    /\ Len(event_queue) < MaxQueue
    /\ \E is_focus \in BOOLEAN, outcome \in FocusOutcomes :
         /\ ~is_focus => outcome = "noop"
         /\ event_queue' = event_queue \o focus_events(outcome) \o <<"ActionRequest">>
         /\ needs_restyle' = (needs_restyle \/ focus_restyles(outcome))
    /\ UNCHANGED stored_control_flow
    /\ Return510
    /\ UNCHANGED <<cfg, iteration_mode, geom, dispatch_log, proxy_channel, animations,
                   needs_relayout, needs_redraw, tree_updates, redraw_pending, pc,
                   host, proxy_pending, sent_in_wait, iter>>

\* WindowEvent::CloseRequested
HostCloseRequested ==
    /\ pc = "host" /\ host = "events"
    /\ stored_control_flow' = "Exit"
    /\ Return510
    /\ UNCHANGED <<cfg, iteration_mode, geom, event_queue, dispatch_log, proxy_channel,
                   animations, flags, tree_updates, redraw_pending, pc, host,
                   proxy_pending, sent_in_wait, iter>>

\* HostInput with the event put at the front of the queue
HostInput_front ==
    /\ pc = "host" /\ host = "events"
    /\ Len(event_queue) < MaxQueue
    /\ \E e \in display.inputs : event_queue' = <<e>> \o event_queue
    /\ UNCHANGED stored_control_flow
    /\ Return510
    /\ UNCHANGED <<cfg, iteration_mode, geom, dispatch_log, proxy_channel, animations, flags,
                   tree_updates, redraw_pending, pc, host, proxy_pending,
                   sent_in_wait, iter>>

\* HostInput storing Poll for the event it enqueues
HostInput_poll ==
    /\ pc = "host" /\ host = "events"
    /\ Len(event_queue) < MaxQueue
    /\ \E e \in display.inputs : send_event(e)
    /\ stored_control_flow' = "Poll"
    /\ Return510
    /\ UNCHANGED <<cfg, iteration_mode, geom, dispatch_log, proxy_channel, animations, flags,
                   tree_updates, redraw_pending, pc, host, proxy_pending,
                   sent_in_wait, iter>>

\* CursorMoved, MouseInput, MouseWheel, KeyboardInput, ReceivedCharacter: emit_origin
HostInput ==
    /\ pc = "host" /\ host = "events"
    /\ Len(event_queue) < MaxQueue
    /\ \E e \in display.inputs : send_event(e)
    /\ UNCHANGED stored_control_flow
    /\ Return510
    /\ UNCHANGED <<cfg, iteration_mode, geom, dispatch_log, proxy_channel, animations, flags,
                   tree_updates, redraw_pending, pc, host, proxy_pending,
                   sent_in_wait, iter>>

\* HostResized with the style size left in physical pixels
HostResized_physical ==
    /\ pc = "host" /\ host = "events"
    /\ \E size \in display.sizes :
         /\ style_size' = to_logical(size, 1)
         /\ cache_size' = size
         /\ clip_region' = size
    /\ needs_restyle' = TRUE
    /\ needs_relayout' = TRUE
    /\ needs_redraw' = TRUE
    /\ UNCHANGED stored_control_flow
    /\ Return510
    /\ UNCHANGED <<cfg, iteration_mode, dpi_factor, event_queue, dispatch_log,
                   proxy_channel, animations, tree_updates, redraw_pending, pc, host,
                   proxy_pending, sent_in_wait, iter>>

\* WindowEvent::Resized(physical_size): the root's style size becomes the
\* logical size, its cached size and clip region the physical size, and
\* need_restyle, need_relayout and need_redraw are called
HostResized ==
    /\ pc = "host" /\ host = "events"
    /\ \E size \in display.sizes :
         /\ style_size' = to_logical(size, dpi_factor)
         /\ cache_size' = size
         /\ clip_region' = size
    /\ needs_restyle' = TRUE
    /\ needs_relayout' = TRUE
    /\ needs_redraw' = TRUE
    /\ UNCHANGED stored_control_flow
    /\ Return510
    /\ UNCHANGED <<cfg, iteration_mode, dpi_factor, event_queue, dispatch_log,
                   proxy_channel, animations, tree_updates, redraw_pending, pc, host,
                   proxy_pending, sent_in_wait, iter>>

\* HostScaleFactorChanged doing what the Resized arm does after the sizes
HostScaleFactorChanged_asResize ==
    /\ pc = "host" /\ host = "events"
    /\ \E scale \in display.scales, size \in display.sizes :
         /\ dpi_factor' = scale
         /\ cache_size' = size
         /\ style_size' = to_logical(size, scale)
         /\ clip_region' = size
    /\ needs_restyle' = TRUE
    /\ needs_relayout' = TRUE
    /\ needs_redraw' = TRUE
    /\ UNCHANGED stored_control_flow
    /\ Return510
    /\ UNCHANGED <<cfg, iteration_mode, event_queue, dispatch_log, proxy_channel,
                   animations, tree_updates, redraw_pending, pc, host,
                   proxy_pending, sent_in_wait, iter>>

\* WindowEvent::ScaleFactorChanged { scale_factor, new_inner_size }: the
\* scale factor and the root's cached and style size are replaced
HostScaleFactorChanged ==
    /\ pc = "host" /\ host = "events"
    /\ \E scale \in display.scales, size \in display.sizes :
         /\ dpi_factor' = scale
         /\ cache_size' = size
         /\ style_size' = to_logical(size, scale)
    /\ UNCHANGED stored_control_flow
    /\ Return510
    /\ UNCHANGED <<cfg, iteration_mode, clip_region, event_queue, dispatch_log,
                   proxy_channel, animations, flags, tree_updates, redraw_pending,
                   pc, host, proxy_pending, sent_in_wait, iter>>

\* Focused, ModifiersChanged and the `_` arms
HostOther ==
    /\ pc = "host" /\ host = "events"
    /\ UNCHANGED stored_control_flow
    /\ Return510
    /\ UNCHANGED <<cfg, iteration_mode, geom, event_queue, dispatch_log, proxy_channel,
                   animations, flags, tree_updates, redraw_pending, pc, host,
                   proxy_pending, sent_in_wait, iter>>

\* Event::RedrawRequested => context_draw
HostRedrawRequested ==
    /\ pc = "host" /\ host = "redraw"
    /\ redraw_pending
    /\ redraw_pending' = FALSE
    /\ UNCHANGED stored_control_flow
    /\ Return510
    /\ UNCHANGED <<cfg, iteration_mode, geom, event_queue, dispatch_log, proxy_channel,
                   animations, flags, tree_updates, pc, host, proxy_pending,
                   sent_in_wait, iter>>

\* Event::RedrawEventsCleared (a `_` arm) ends the cycle; the host then acts
\* on the control flow it was handed: Exit is sticky, Poll starts the next
\* cycle at once, Wait blocks.
HostRedrawEventsCleared ==
    /\ pc = "host" /\ host = "redraw"
    /\ ~redraw_pending
    /\ UNCHANGED stored_control_flow
    /\ Return510
    /\ host' = IF host_exit' THEN "exited"
               ELSE IF control_flow' = "Poll" THEN "events" ELSE "blocked"
    /\ sent_in_wait' = FALSE
    /\ iter' = IterStart
    /\ UNCHANGED <<cfg, iteration_mode, geom, event_queue, dispatch_log, proxy_channel,
                   animations, flags, tree_updates, redraw_pending, pc,
                   proxy_pending>>

\* ------------------------------------------ the stages' collaborators
\* EventManager::flush_events: drains the queue once, dispatching every
\* event in insertion order; the handlers react (r), and what they enqueue
\* forms the new queue.  A WindowEvent::Redraw raises needs_redraw.
flush_events(r) ==
    /\ dispatch_log' = event_queue
    /\ event_queue' = r.emit
    /\ Raise(r, Has("Redraw", event_queue))
    /\ animations' = StartAnim(r)
    /\ proxy_pending' = proxy_pending - Count("proxy", event_queue)

\* process_data_updates: the dirty bindings are re-evaluated, each producing
\* zero or more events appended to the queue, and invalidations
process_data_updates(r) ==
    /\ event_queue' = event_queue \o r.emit
    /\ Raise(r, FALSE)

\* process_tree_updates(f): the accessibility system works out the tree
\* updates that the changes of the tree since the last call ask for (none
\* when the tree kept its shape), the closure f is called once with them,
\* and they are dropped when it returns
process_tree_updates(produced) ==
    /\ tree_updates' = produced
    /\ iter' = [iter EXCEPT !.trace = Mark("tree")]

\* process_style_updates: consumes needs_restyle, may raise needs_relayout
\* and needs_redraw; animations that have completed are removed
process_style_updates(r, completed) ==
    /\ needs_restyle' = FALSE
    /\ needs_relayout' = (needs_relayout \/ "relayout" \in r.inv)
    /\ needs_redraw' = (needs_redraw \/ "redraw" \in r.inv)
    /\ animations' = animations - completed

\* process_visual_updates: consumes needs_relayout, may raise needs_redraw
\* and enqueue geometry events
process_visual_updates(r) ==
    /\ needs_relayout' = FALSE
    /\ needs_redraw' = (needs_redraw \/ "redraw" \in r.inv)
    /\ event_queue' = event_queue \o r.emit
    /\ UNCHANGED needs_restyle

\* the idle callback, with the whole context at hand
idle_callback(r) ==
    /\ event_queue' = event_queue \o r.emit
    /\ Raise(r, FALSE)
    /\ animations' = StartAnim(r)

\* ------------------------------------- one iteration: MainEventsCleared
\* MainEventsCleared without the reset of lines 271-272
MainEventsCleared_keep ==
    /\ pc = "host" /\ host = "events"
    /\ proxy_channel = <<>>
    /\ pc' = "flush"
    /\ iter' = [IterStart EXCEPT !.prev = stored_control_flow]
    /\ startup' = "iterated"
    /\ UNCHANGED <<cfg, iteration_mode, geom, stored_control_flow, control_flow, host_exit,
                   event_queue, dispatch_log, proxy_channel, animations,
                   flags, tree_updates, redraw_pending, host, proxy_pending,
                   sent_in_wait>>

\* MainEventsCleared ending the loop when nothing is queued
MainEventsCleared_exit ==
    /\ pc = "host" /\ host = "events"
    /\ proxy_channel = <<>>
    /\ stored_control_flow' = IF event_queue = <<>> /\ animations = 0 THEN "Exit"
                              ELSE IF default_should_poll THEN "Poll" ELSE "Wait"
    /\ pc' = "flush"
    /\ iter' = [IterStart EXCEPT !.prev = stored_control_flow]
    /\ startup' = "iterated"
    /\ UNCHANGED <<cfg, iteration_mode, geom, control_flow, host_exit, event_queue, 
                   dispatch_log, proxy_channel, animations, flags, tree_updates,
                   redraw_pending, host, proxy_pending, sent_in_wait>>

\* lines 270-276: the continuation mode starts from the configured default
MainEventsCleared ==
    /\ pc = "host" /\ host = "events"
    /\ proxy_channel = <<>>
    /\ stored_control_flow' = IF default_should_poll THEN "Poll" ELSE "Wait"
    /\ pc' = "flush"
    /\ iter' = [IterStart EXCEPT !.prev = stored_control_flow]
    /\ startup' = "iterated"
    /\ UNCHANGED <<cfg, iteration_mode, geom, control_flow, host_exit, event_queue, 
                   dispatch_log, proxy_channel, animations, flags, tree_updates,
                   redraw_pending, host, proxy_pending, sent_in_wait>>

\* FlushLoop as `if flush_events() {}`: one call, whatever it returns
FlushLoop_once ==
    /\ pc = "flush"
    /\ IF event_queue # <<>>
       THEN \E r \in HandlerReactions :
              /\ flush_events(r)
              /\ iter' = [iter EXCEPT !.trace = Mark("flush"), !.flush_ret = TRUE,
                             !.flushed_proxy = @ \/ Has("proxy", event_queue),
                             !.invalidations =
                                 Invalidated(r, Has("Redraw", event_queue))]
       ELSE /\ iter' = [iter EXCEPT !.trace = Mark("flush"), !.flush_ret = FALSE]
            /\ dispatch_log' = <<>>
            /\ UNCHANGED <<event_queue, flags, animations, proxy_pending>>
    /\ pc' = "data"
    /\ UNCHANGED <<cfg, iteration_mode, geom, stored_control_flow, control_flow, host_exit, startup,
                   proxy_channel, tree_updates, redraw_pending, host, sent_in_wait>>

\* FlushLoop giving up after its second flush_events call
FlushLoop_capped ==
    /\ pc = "flush"
    /\ IF event_queue # <<>>
       THEN /\ \E r \in HandlerReactions :
                 /\ flush_events(r)
                 /\ iter' = [iter EXCEPT !.trace = Mark("flush"), !.flush_ret = TRUE,
                                !.flushed_proxy = @ \/ Has("proxy", event_queue),
                                !.invalidations =
                                    Invalidated(r, Has("Redraw", event_queue))]
            /\ pc' = IF Has("flush", iter.trace) THEN "data" ELSE "flush"
       ELSE /\ iter' = [iter EXCEPT !.trace = Mark("flush"), !.flush_ret = FALSE]
            /\ pc' = "data"
            /\ dispatch_log' = <<>>
            /\ UNCHANGED <<event_queue, flags, animations, proxy_pending>>
    /\ UNCHANGED <<cfg, iteration_mode, geom, stored_control_flow, control_flow, host_exit, startup,
                   proxy_channel, tree_updates, redraw_pending, host, sent_in_wait>>

\* FlushLoop as `while !flush_events() {}`
FlushLoop_negated ==
    /\ pc = "flush"
    /\ IF event_queue # <<>>
       THEN /\ \E r \in HandlerReactions :
                 /\ flush_events(r)
                 /\ iter' = [iter EXCEPT !.trace = Mark("flush"), !.flush_ret = TRUE,
                                !.flushed_proxy = @ \/ Has("proxy", event_queue),
                                !.invalidations =
                                    Invalidated(r, Has("Redraw", event_queue))]
            /\ pc' = "data"
       ELSE /\ iter' = [iter EXCEPT !.trace = Mark("flush"), !.flush_ret = FALSE]
            /\ pc' = "flush"
            /\ dispatch_log' = <<>>
            /\ UNCHANGED <<event_queue, flags, animations, proxy_pending>>
    /\ UNCHANGED <<cfg, iteration_mode, geom, stored_control_flow, control_flow, host_exit, startup,
                   proxy_channel, tree_updates, redraw_pending, host, sent_in_wait>>

\* line 283: while event_manager.flush_events(cx.0) {}
\* one step is one call; the call that finds the queue empty dispatches
\* nothing, returns false and ends the loop
FlushLoop ==
    /\ pc = "flush"
    /\ IF event_queue # <<>>
       THEN /\ \E r \in HandlerReactions :
                 /\ flush_events(r)
                 /\ iter' = [iter EXCEPT !.trace = Mark("flush"), !.flush_ret = TRUE,
                                !.flushed_proxy = @ \/ Has("proxy", event_queue),
                                !.invalidations =
                                    Invalidated(r, Has("Redraw", event_queue))]
            /\ pc' = "flush"
       ELSE /\ iter' = [iter EXCEPT !.trace = Mark("flush"), !.flush_ret = FALSE]
            /\ pc' = "data"
            /\ dispatch_log' = <<>>
            /\ UNCHANGED <<event_queue, flags, animations, proxy_pending>>
    /\ UNCHANGED <<cfg, iteration_mode, geom, stored_control_flow, control_flow, host_exit, startup,
                   proxy_channel, tree_updates, redraw_pending, host, sent_in_wait>>

\* line 285: cx.process_data_updates()
DataStage ==
    /\ pc = "data"
    /\ \E r \in UserReactions :
         /\ r.anim = FALSE
         /\ process_data_updates(r)
         /\ iter' = [iter EXCEPT !.trace = Mark("data"),
                                 !.invalidations = Invalidated(r, FALSE)]
    /\ pc' = "tree"
    /\ UNCHANGED <<cfg, iteration_mode, geom, stored_control_flow, control_flow, host_exit, startup,
                   dispatch_log, proxy_channel, animations, tree_updates,
                   redraw_pending, host, proxy_pending, sent_in_wait>>

\* lines 287-291: cx.process_tree_updates(..), up to the call of the closure
TreeStage ==
    /\ pc = "tree"
    /\ \E produced \in 0..MaxTree : process_tree_updates(produced)
    /\ pc' = "sync"
    /\ UNCHANGED <<cfg, iteration_mode, geom, stored_control_flow, control_flow, host_exit, startup,
                   event_queue, dispatch_log, proxy_channel, animations,
                   flags, redraw_pending, host, proxy_pending, sent_in_wait>>

\* TreeSync entering the loop body whatever the closure is given
TreeSync_always ==
    /\ pc = "sync"
    /\ pc' = "a11y"
    /\ UNCHANGED <<cfg, iteration_mode, geom, stored_control_flow, control_flow, host_exit, startup,
                   event_queue, dispatch_log, proxy_channel, animations,
                   flags, tree_updates, redraw_pending, host, proxy_pending,
                   sent_in_wait, iter>>

\* lines 288-290: |tree_updates| for update in tree_updates.iter() { .. }:
\* the loop body is entered when there is an update, and skipped when
\* there is none
TreeSync ==
    /\ pc = "sync"
    /\ pc' = IF tree_updates > 0 THEN "a11y" ELSE "style"
    /\ UNCHANGED <<cfg, iteration_mode, geom, stored_control_flow, control_flow, host_exit, startup,
                   event_queue, dispatch_log, proxy_channel, animations,
                   flags, tree_updates, redraw_pending, host, proxy_pending,
                   sent_in_wait, iter>>

\* line 289: accesskit.update(update.clone()), once for every update; after
\* the last one the closure returns and the updates are dropped
AccessKitUpdate ==
    /\ pc = "a11y"
    /\ tree_updates' = IF tree_updates > 0 THEN tree_updates - 1 ELSE 0
    /\ pc' = IF tree_updates' > 0 THEN "a11y" ELSE "style"
    /\ UNCHANGED <<cfg, iteration_mode, geom, stored_control_flow, control_flow, host_exit, startup,
                   event_queue, dispatch_log, proxy_channel, animations,
                   flags, redraw_pending, host, proxy_pending, sent_in_wait, iter>>

\* line 293: cx.process_style_updates()
StyleStage ==
    /\ pc = "style"
    /\ \E r \in UserReactions, completed \in 0..animations :
         /\ r.anim = FALSE /\ r.emit = <<>> /\ r.inv \subseteq {"relayout", "redraw"}
         /\ process_style_updates(r, completed)
         /\ iter' = [iter EXCEPT !.trace = Mark("style"),
                                 !.invalidations = Invalidated(r, FALSE)]
    /\ pc' = "anim"
    /\ UNCHANGED <<cfg, iteration_mode, geom, stored_control_flow, control_flow, host_exit, startup,
                   event_queue, dispatch_log, proxy_channel, tree_updates,
                   redraw_pending, host, proxy_pending, sent_in_wait>>

\* AnimationCheck without line 296
AnimationCheck_noPoll ==
    /\ pc = "anim"
    /\ IF has_animations
       THEN /\ UNCHANGED stored_control_flow
            /\ \E sent \in BOOLEAN : IF ~sent
               THEN /\ pc' = "panicked"
                    /\ iter' = [iter EXCEPT !.trace = Mark("anim"),
                                            !.anim_active = TRUE]
                    /\ UNCHANGED <<proxy_channel, redraw_pending>>
               ELSE /\ proxy_channel' = Append(proxy_channel, "Redraw")
                    /\ redraw_pending' = TRUE
                    /\ iter' = [iter EXCEPT !.trace = Mark("anim"),
                                            !.anim_active = TRUE,
                                            !.redraw_posted = @ + 1,
                                            !.redraw_anim = @ + 1]
                    /\ pc' = "visual"
       ELSE /\ iter' = [iter EXCEPT !.trace = Mark("anim")]
            /\ pc' = "visual"
            /\ UNCHANGED <<stored_control_flow, proxy_channel, redraw_pending>>
    /\ UNCHANGED <<cfg, iteration_mode, geom, control_flow, host_exit, startup, event_queue,
                   dispatch_log, animations, flags, tree_updates, host,
                   proxy_pending, sent_in_wait>>

\* AnimationCheck posting the synthetic Redraw twice
AnimationCheck_twice ==
    /\ pc = "anim"
    /\ IF has_animations
       THEN /\ stored_control_flow' = "Poll"
            /\ \E sent \in BOOLEAN : IF ~sent
               THEN /\ pc' = "panicked"
                    /\ iter' = [iter EXCEPT !.trace = Mark("anim"),
                                            !.anim_active = TRUE]
                    /\ UNCHANGED <<proxy_channel, redraw_pending>>
               ELSE /\ proxy_channel' = proxy_channel \o <<"Redraw", "Redraw">>
                    /\ redraw_pending' = TRUE
                    /\ iter' = [iter EXCEPT !.trace = Mark("anim"),
                                            !.anim_active = TRUE,
                                            !.redraw_posted = @ + 2,
                                            !.redraw_anim = @ + 1]
                    /\ pc' = "visual"
       ELSE /\ iter' = [iter EXCEPT !.trace = Mark("anim")]
            /\ pc' = "visual"
            /\ UNCHANGED <<stored_control_flow, proxy_channel, redraw_pending>>
    /\ UNCHANGED <<cfg, iteration_mode, geom, control_flow, host_exit, startup, event_queue,
                   dispatch_log, animations, flags, tree_updates, host,
                   proxy_pending, sent_in_wait>>

\* lines 295-309: if has_animations(&cx.0) { Poll; post Redraw; request_redraw }
\* when the send fails, send_event(..).unwrap() of lines 298-300 panics
AnimationCheck ==
    /\ pc = "anim"
    /\ IF has_animations
       THEN /\ stored_control_flow' = "Poll"
            /\ \E sent \in BOOLEAN : IF ~sent
               THEN /\ pc' = "panicked"
                    /\ iter' = [iter EXCEPT !.trace = Mark("anim"),
                                            !.anim_active = TRUE]
                    /\ UNCHANGED <<proxy_channel, redraw_pending>>
               ELSE /\ proxy_channel' = Append(proxy_channel, "Redraw")
                    /\ redraw_pending' = TRUE
                    /\ iter' = [iter EXCEPT !.trace = Mark("anim"),
                                            !.anim_active = TRUE,
                                            !.redraw_posted = @ + 1,
                                            !.redraw_anim = @ + 1]
                    /\ pc' = "visual"
       ELSE /\ iter' = [iter EXCEPT !.trace = Mark("anim")]
            /\ pc' = "visual"
            /\ UNCHANGED <<stored_control_flow, proxy_channel, redraw_pending>>
    /\ UNCHANGED <<cfg, iteration_mode, geom, control_flow, host_exit, startup, event_queue,
                   dispatch_log, animations, flags, tree_updates, host,
                   proxy_pending, sent_in_wait>>

\* line 311: cx.process_visual_updates()
VisualStage ==
    /\ pc = "visual"
    /\ \E r \in UserReactions :
         /\ r.anim = FALSE /\ r.inv \subseteq {"redraw"}
         /\ process_visual_updates(r)
         /\ iter' = [iter EXCEPT !.trace = Mark("visual"),
                                 !.invalidations = Invalidated(r, FALSE)]
    /\ pc' = "arbiter"
    /\ UNCHANGED <<cfg, iteration_mode, geom, stored_control_flow, control_flow, host_exit, startup,
                   dispatch_log, proxy_channel, animations, tree_updates,
                   redraw_pending, host, proxy_pending, sent_in_wait>>

\* RedrawArbiter without line 321
RedrawArbiter_keep ==
    /\ pc = "arbiter"
    /\ IF needs_redraw
       THEN /\ redraw_pending' = TRUE
            /\ iter' = [iter EXCEPT !.trace = Mark("arbiter"), !.redraw_arbiter = @ + 1]
       ELSE /\ iter' = [iter EXCEPT !.trace = Mark("arbiter")]
            /\ UNCHANGED redraw_pending
    /\ pc' = "idle"
    /\ UNCHANGED <<cfg, iteration_mode, geom, stored_control_flow, control_flow, host_exit, startup,
                   event_queue, dispatch_log, proxy_channel, animations,
                   flags, tree_updates, host, proxy_pending, sent_in_wait>>

\* lines 313-322: if needs_redraw { request_redraw(); needs_redraw = false }
RedrawArbiter ==
    /\ pc = "arbiter"
    /\ IF needs_redraw
       THEN /\ redraw_pending' = TRUE
            /\ needs_redraw' = FALSE
            /\ iter' = [iter EXCEPT !.trace = Mark("arbiter"), !.redraw_arbiter = @ + 1]
       ELSE /\ iter' = [iter EXCEPT !.trace = Mark("arbiter")]
            /\ UNCHANGED <<redraw_pending, needs_redraw>>
    /\ pc' = "idle"
    /\ UNCHANGED <<cfg, iteration_mode, geom, stored_control_flow, control_flow, host_exit, startup,
                   event_queue, dispatch_log, proxy_channel, animations,
                   needs_restyle, needs_relayout, tree_updates, host, proxy_pending,
                   sent_in_wait>>

\* lines 324-327: if let Some(idle_callback) = &on_idle { (idle_callback)(..) }
IdleHook ==
    /\ pc = "idle"
    /\ IF on_idle
       THEN \E r \in UserReactions :
              /\ idle_callback(r)
              /\ iter' = [iter EXCEPT !.trace = Mark("idle"), !.idle_calls = @ + 1,
                                      !.idle_emitted = Len(r.emit),
                                      !.invalidations = Invalidated(r, FALSE)]
       ELSE /\ iter' = [iter EXCEPT !.trace = Mark("idle")]
            /\ UNCHANGED <<event_queue, flags, animations>>
    /\ pc' = "cont"
    /\ UNCHANGED <<cfg, iteration_mode, geom, stored_control_flow, control_flow, host_exit, startup,
                   dispatch_log, proxy_channel, tree_updates, redraw_pending, host,
                   proxy_pending, sent_in_wait>>

\* ContinuationCheck reading the queue as empty while it holds one event
ContinuationCheck_manyOnly ==
    /\ pc = "cont"
    /\ IF Len(event_queue) > 1
       THEN /\ stored_control_flow' = "Poll"
            /\ \E sent \in BOOLEAN : IF ~sent
               THEN /\ pc' = "panicked"
                    /\ iter' = [iter EXCEPT !.trace = Mark("cont")]
                    /\ UNCHANGED proxy_channel
               ELSE /\ proxy_channel' = Append(proxy_channel, "unit")
                    /\ iter' = [iter EXCEPT !.trace = Mark("cont"),
                                            !.wake_posted = @ + 1]
                    /\ pc' = "return"
       ELSE /\ iter' = [iter EXCEPT !.trace = Mark("cont")]
            /\ pc' = "return"
            /\ UNCHANGED <<stored_control_flow, proxy_channel>>
    /\ UNCHANGED <<cfg, iteration_mode, geom, control_flow, host_exit, startup, event_queue,
                   dispatch_log, animations, flags, tree_updates,
                   redraw_pending, host, proxy_pending, sent_in_wait>>

\* ContinuationCheck storing Poll and posting the wake-up in every iteration
ContinuationCheck_always ==
    /\ pc = "cont"
    /\ stored_control_flow' = "Poll"
    /\ \E sent \in BOOLEAN : IF ~sent
       THEN /\ pc' = "panicked"
            /\ iter' = [iter EXCEPT !.trace = Mark("cont")]
            /\ UNCHANGED proxy_channel
       ELSE /\ proxy_channel' = Append(proxy_channel, "unit")
            /\ iter' = [iter EXCEPT !.trace = Mark("cont"), !.wake_posted = @ + 1]
            /\ pc' = "return"
    /\ UNCHANGED <<cfg, iteration_mode, geom, control_flow, host_exit, startup, event_queue,
                   dispatch_log, animations, flags, tree_updates,
                   redraw_pending, host, proxy_pending, sent_in_wait>>

\* ContinuationCheck without line 330
ContinuationCheck_noPoll ==
    /\ pc = "cont"
    /\ IF has_queued_events
       THEN /\ UNCHANGED stored_control_flow
            /\ \E sent \in BOOLEAN : IF ~sent
               THEN /\ pc' = "panicked"
                    /\ iter' = [iter EXCEPT !.trace = Mark("cont")]
                    /\ UNCHANGED proxy_channel
               ELSE /\ proxy_channel' = Append(proxy_channel, "unit")
                    /\ iter' = [iter EXCEPT !.trace = Mark("cont"),
                                            !.wake_posted = @ + 1]
                    /\ pc' = "return"
       ELSE /\ iter' = [iter EXCEPT !.trace = Mark("cont")]
            /\ pc' = "return"
            /\ UNCHANGED <<stored_control_flow, proxy_channel>>
    /\ UNCHANGED <<cfg, iteration_mode, geom, control_flow, host_exit, startup, event_queue,
                   dispatch_log, animations, flags, tree_updates,
                   redraw_pending, host, proxy_pending, sent_in_wait>>

\* ContinuationCheck without the post of lines 331-333
ContinuationCheck_noWake ==
    /\ pc = "cont"
    /\ IF has_queued_events
       THEN /\ stored_control_flow' = "Poll"
            /\ iter' = [iter EXCEPT !.trace = Mark("cont")]
       ELSE /\ iter' = [iter EXCEPT !.trace = Mark("cont")]
            /\ UNCHANGED stored_control_flow
    /\ pc' = "return"
    /\ UNCHANGED <<cfg, iteration_mode, geom, control_flow, host_exit, startup, event_queue,
                   dispatch_log, proxy_channel, animations, flags,
                   tree_updates, redraw_pending, host, proxy_pending, sent_in_wait>>

\* lines 329-334: if cx.has_queued_events() { Poll; post a unit event }
\* when the send fails, send_event(..).expect(..) of lines 331-333 panics
ContinuationCheck ==
    /\ pc = "cont"
    /\ IF has_queued_events
       THEN /\ stored_control_flow' = "Poll"
            /\ \E sent \in BOOLEAN : IF ~sent
               THEN /\ pc' = "panicked"
                    /\ iter' = [iter EXCEPT !.trace = Mark("cont")]
                    /\ UNCHANGED proxy_channel
               ELSE /\ proxy_channel' = Append(proxy_channel, "unit")
                    /\ iter' = [iter EXCEPT !.trace = Mark("cont"),
                                            !.wake_posted = @ + 1]
                    /\ pc' = "return"
       ELSE /\ iter' = [iter EXCEPT !.trace = Mark("cont")]
            /\ pc' = "return"
            /\ UNCHANGED <<stored_control_flow, proxy_channel>>
    /\ UNCHANGED <<cfg, iteration_mode, geom, control_flow, host_exit, startup, event_queue,
                   dispatch_log, animations, flags, tree_updates,
                   redraw_pending, host, proxy_pending, sent_in_wait>>

\* line 510 at the end of the MainEventsCleared arm
ReturnControl ==
    /\ pc = "return"
    /\ UNCHANGED stored_control_flow
    /\ Return510
    /\ iteration_mode' = stored_control_flow
    /\ pc' = "host"
    /\ host' = "redraw"
    /\ UNCHANGED <<cfg, geom, event_queue, dispatch_log, proxy_channel,
                   animations, flags, tree_updates, redraw_pending, proxy_pending,
                   sent_in_wait, iter>>

Next ==
    \/ ProxySend
    \/ HostWake
    \/ HostUserEvent
    \/ HostActionRequest
    \/ HostCloseRequested
    \/ HostInput
    \/ HostResized
    \/ HostScaleFactorChanged
    \/ HostOther
    \/ HostRedrawRequested
    \/ HostRedrawEventsCleared
    \/ MainEventsCleared
    \/ FlushLoop
    \/ DataStage
    \/ TreeStage
    \/ TreeSync
    \/ AccessKitUpdate
    \/ StyleStage
    \/ AnimationCheck
    \/ VisualStage
    \/ RedrawArbiter
    \/ IdleHook
    \/ ContinuationCheck
    \/ ReturnControl

\* any application code, in a window that keeps its size and scale factor
Spec == Init /\ [][Next]_vars

\* a static application in a window that is resized and moved between displays
SpecGeom == Started("static", AnyDisplay) /\ [][Next]_vars

\* handlers that stop enqueuing; the loop thread keeps running its while loop
SpecWellBehaved ==
    Started("well_behaved", FixedDisplay) /\ [][Next]_vars /\ WF_vars(FlushLoop)

\* any application code, with input events that can be told apart
SpecInputs == Started("any", AnyInput) /\ [][Next]_vars

\* a handler that enqueues a new event on every dispatch
SpecInsatiable == Started("insatiable", FixedDisplay) /\ [][Next]_vars

\* the steps of the loop thread inside one iteration (lines 283-334 and 510)
Pipeline ==
    \/ FlushLoop \/ DataStage \/ TreeStage \/ TreeSync \/ AccessKitUpdate
    \/ StyleStage \/ AnimationCheck \/ VisualStage \/ RedrawArbiter \/ IdleHook
    \/ ContinuationCheck \/ ReturnControl

\* the host's cycle: the pending user events, MainEventsCleared, the
\* requested redraws, RedrawEventsCleared
HostCycle ==
    \/ HostUserEvent \/ MainEventsCleared \/ HostRedrawRequested
    \/ HostRedrawEventsCleared

\* application code that enqueues events while an animation runs and has
\* settled once none is left; the loop thread keeps running and the host
\* keeps going through its cycle
SpecSettled ==
    Started("settling", FixedDisplay) /\ [][Next]_vars
        /\ WF_vars(Pipeline) /\ WF_vars(HostCycle)

\* ------------------------------------------------------------- the claims
\* the iteration has run its last stage and is about to hand control back
AtReturn == pc = "return"

\* control is back with the host after an iteration, which iter still describes
Handed == pc = "host" /\ host = "redraw"

\* the flush loop of the current iteration has finished
AfterFlush ==
    pc \in {"data", "tree", "sync", "a11y", "style", "anim", "visual", "arbiter", "idle",
            "cont",
            "return"}

DefaultMode == IF default_should_poll THEN "Poll" ELSE "Wait"

RedrawCalls == iter.redraw_anim + iter.redraw_arbiter

\* C1: the Event Queue is empty at the moment Style Resolution starts,
\* whatever Data Propagation enqueued after the flush loop.
C1_QueueEmptyAtStyle == pc = "style" => event_queue = <<>>

\* C2: every iteration runs the stages once each and in the order flush
\* (until flush_events returns false), data, tree, style, anim, visual,
\* arbiter, idle, cont; data propagation precedes accessibility and style.
C2_StagesInOrder ==
    /\ Len(iter.trace) <= Len(StageOrder)
    /\ \A i \in 1..Len(iter.trace) : iter.trace[i] = StageOrder[i]
    /\ AfterFlush => iter.flush_ret = FALSE
    /\ (AtReturn \/ Handed) =>
          /\ iter.trace = StageOrder
          /\ iter.flush_ret = FALSE
          /\ on_idle => iter.idle_calls = 1

C2_Witness ==
    /\ AtReturn /\ iter.trace = StageOrder /\ on_idle /\ iter.idle_calls = 1
    /\ iter.flushed_proxy /\ event_queue # <<>>

\* C3: an animation active at the animation check makes the mode handed to
\* the host at the end of that iteration Poll, whatever the default is and
\* whatever the idle hook does.
C3_AnimationForcesPoll ==
    /\ (iter.anim_active /\ pc \in {"visual", "arbiter", "idle", "cont", "return"})
          => stored_control_flow = "Poll"
    /\ (iter.anim_active /\ Handed) => control_flow = "Poll"

C3_Witness ==
    /\ Handed /\ iter.anim_active /\ ~default_should_poll
    /\ iter.idle_calls = 1 /\ event_queue = <<>>
    /\ control_flow = "Poll"

\* C4: a non-empty Event Queue at the end of an iteration makes the mode of
\* that iteration Poll, also with default Wait and no animation.
C4_QueuedEventsForcePoll ==
    /\ (AtReturn /\ event_queue # <<>>) => stored_control_flow = "Poll"
    /\ (Handed /\ event_queue # <<>>) => control_flow = "Poll"

C4_Witness ==
    /\ Handed /\ ~default_should_poll /\ ~iter.anim_active
    /\ iter.idle_emitted = 1 /\ Len(event_queue) = 1
    /\ control_flow = "Poll"

\* C5: an iteration that ends with a non-empty Event Queue has posted one
\* wake-up message (unit event) to the loop proxy, and one that ends with an
\* empty queue has posted none; the host never blocks while events remain
\* in the queue.
C5_WakePostedIffQueued ==
    /\ (AtReturn \/ Handed) =>
          /\ event_queue # <<>> => (iter.wake_posted = 1 /\ Has("unit", proxy_channel))
          /\ event_queue = <<>> => iter.wake_posted = 0
    /\ host = "blocked" => event_queue = <<>>

C5_Witness ==
    /\ AtReturn /\ event_queue # <<>> /\ iter.wake_posted = 1
    /\ Has("unit", proxy_channel)

\* C6: the mode is recomputed in every iteration: with no animation active
\* and an empty queue at its end the iteration yields the configured
\* default, whatever mode was stored when it began.
C6_RecomputedFromDefault ==
    /\ (AtReturn /\ ~iter.anim_active /\ event_queue = <<>>)
          => stored_control_flow = DefaultMode
    /\ (Handed /\ ~iter.anim_active /\ event_queue = <<>>)
          => control_flow = DefaultMode

C6_Witness ==
    /\ Handed /\ ~iter.anim_active /\ event_queue = <<>>
    /\ iter.prev = "Poll" /\ ~default_should_poll
    /\ control_flow = "Wait"

\* C7: once a close request has set the stored continuation mode to Exit it
\* never leaves Exit in any later host callback.
C7_ExitIsTerminal == [][stored_control_flow = "Exit" => stored_control_flow' = "Exit"]_vars

\* C8: the animation check never calls the window's request_redraw itself.
C8_NoRedrawRequestByAnimationCheck == iter.redraw_anim = 0

\* C9: request_redraw is called at most once in an iteration, and exactly
\* once in an iteration with at least one need_redraw() invalidation.
C9_OneRedrawRequestPerIteration ==
    /\ RedrawCalls <= 1
    /\ (AtReturn /\ iter.invalidations >= 1) => RedrawCalls = 1

\* C10: a cross-thread event is never lost and never left behind: it is in
\* the proxy or in the Event Queue until dispatched, the flush loop of the
\* iteration after its delivery dispatches it, and the loop does not block
\* with it undelivered.
C10_ProxyEventDispatched ==
    /\ proxy_pending = Count("proxy", proxy_channel) + Count("proxy", event_queue)
    /\ (AfterFlush \/ Handed \/ host = "blocked") => ~Has("proxy", event_queue)
    /\ (host = "blocked" /\ ~Has("proxy", proxy_channel)) => proxy_pending = 0

C10_Witness ==
    /\ sent_in_wait /\ iter.flushed_proxy /\ pc = "data"
    /\ iter.prev = "Wait" /\ proxy_pending = 0

\* the stages after the animation check of the current iteration
AfterAnim == pc \in {"visual", "arbiter", "idle", "cont", "return"}

\* C11: a failed send on the event proxy is never fatal: every sender, the
\* loop's own Redraw post and wake-up post included, gets an error and goes
\* on without panicking.
C11_FailedSendNotFatal == pc # "panicked"

\* C12: with handlers that do not re-enqueue unconditionally, the loop
\* `while flush_events() {}` terminates in every iteration, and the Event
\* Queue is empty when it does.
C12_FlushLoopTerminates == (pc = "flush") ~> (pc = "data" /\ event_queue = <<>>)

C12_Witness ==
    /\ pc = "data" /\ event_queue = <<>> /\ iter.flush_ret = FALSE
    /\ iter.flushed_proxy /\ handlers = "well_behaved"

\* C13: handling a resize to the physical size (w, h) at the stored scale
\* factor s makes the root's style size the logical size (w/s, h/s), and
\* leaves needs_restyle, needs_relayout and needs_redraw true, whatever they
\* were before.
C13_ResizeGivesLogicalSize ==
    [][HostResized =>
          /\ \E size \in display.sizes :
               /\ style_size' = <<Fraction(size[1], dpi_factor),
                                  Fraction(size[2], dpi_factor)>>
               /\ cache_size' = size
          /\ dpi_factor' = dpi_factor
          /\ needs_restyle' /\ needs_relayout' /\ needs_redraw']_vars

C13_Witness ==
    /\ dpi_factor = 2 /\ cache_size = <<800, 600>> /\ clip_region = <<800, 600>>
    /\ style_size = <<<<400, 1>>, <<300, 1>>>>
    /\ needs_restyle /\ needs_relayout /\ needs_redraw
    /\ pc = "host" /\ startup = "iterated"

\* C14: an iteration whose animation check finds an active animation posts
\* exactly one WindowEvent::Redraw through the loop proxy, and one that finds
\* none posts none; the posted event is in the queue and dispatched by the
\* flush loop of the next iteration, so none is left when that loop is over.
C14_OneRedrawEventPerAnimatedIteration ==
    /\ (AfterAnim \/ Handed) =>
          /\ iter.redraw_posted = (IF iter.anim_active THEN 1 ELSE 0)
          /\ Count("Redraw", proxy_channel) = iter.redraw_posted
          /\ ~Has("Redraw", event_queue)
    /\ pc \in {"data", "tree", "sync", "a11y", "style", "anim"} =>
          /\ ~Has("Redraw", proxy_channel)
          /\ ~Has("Redraw", event_queue)
    /\ Count("Redraw", proxy_channel) + Count("Redraw", event_queue) <= 1
    /\ host = "blocked" => ~Has("Redraw", proxy_channel) /\ ~Has("Redraw", event_queue)

C14_Witness == pc = "flush" /\ Has("Redraw", dispatch_log) /\ iter.prev = "Poll"

\* C15: when process_tree_updates produces no update, the closure returns
\* without a call of the accessibility adapter's update, and that call is
\* only ever made with an update at hand.
C15_NoTreeUpdateNoAdapterCall ==
    [][/\ (pc = "sync" /\ tree_updates = 0) => pc' # "a11y"
       /\ pc' = "a11y" => tree_updates' > 0]_vars

C15_Witness ==
    /\ pc = "sync" /\ tree_updates = 0 /\ iter.trace = <<"flush", "data", "tree">>
    /\ startup = "iterated" /\ ENABLED TreeSync

\* C16: the continuation mode becomes Exit only in the handler of a close
\* request, and Exit is newly handed to the host only when it is the stored
\* mode.
C16_ExitOnlyOnCloseRequest ==
    [][/\ (stored_control_flow # "Exit" /\ stored_control_flow' = "Exit")
             => HostCloseRequested
       /\ (control_flow # "Exit" /\ control_flow' = "Exit")
             => stored_control_flow' = "Exit"
       /\ (host_exit' /\ ~host_exit) => stored_control_flow' = "Exit"]_vars

C16_Witness == host = "exited" /\ host_exit /\ startup = "iterated"

\* C17: a continuation mode handed to the host before the first iteration is
\* Wait when should_poll() was not called.
C17_StartsInWait ==
    (startup = "handed" /\ ~default_should_poll /\ control_flow # "Exit")
        => control_flow = "Wait"

\* C18: the Redraw Arbiter leaves needs_redraw false, and asks the platform
\* for a redraw exactly when it found the flag set: once set, the flag leads
\* to a request in one iteration, and to none in the iterations after it
\* unless it is set again.
C18_ArbiterConsumesInvalidation ==
    [][(pc = "arbiter" /\ pc' # "arbiter") =>
          /\ pc' = "idle"
          /\ ~needs_redraw'
          /\ iter'.redraw_arbiter = (IF needs_redraw THEN 1 ELSE 0)
          /\ needs_redraw => redraw_pending'
          /\ ~iter.anim_active => redraw_pending' = (redraw_pending \/ needs_redraw)]_vars

C18_Witness ==
    /\ pc = "idle" /\ ~needs_redraw /\ iter.redraw_arbiter = 1
    /\ iter.invalidations = 1 /\ ~iter.anim_active /\ redraw_pending

\* a flush_events call that dispatches: the step of the loop thread at the
\* flush stage (a sender on another thread only touches the proxy)
FlushCall == pc = "flush" /\ event_queue # <<>> /\ proxy_channel' = proxy_channel

\* C19: events are dispatched in the order they were enqueued: every step
\* but a dispatching flush_events call leaves the queue as it was with the
\* new events behind it, a proxy event is moved behind the events already
\* queued, in the order the proxy holds them, and a flush_events call
\* dispatches the whole queue front to back; what the handlers enqueue
\* during the call forms the next queue, dispatched by a later call.
C19_InsertionOrderDispatch ==
    [][/\ FlushCall => (dispatch_log' = event_queue /\ event_queue' \in EmitSeqs)
       /\ ~FlushCall => IsPrefix(event_queue, event_queue')
       /\ (pc = "host" /\ proxy_channel # <<>> /\ proxy_channel' = Tail(proxy_channel))
             => event_queue' = Append(event_queue, Head(proxy_channel))]_vars

C19_Witness ==
    /\ pc = "flush" /\ Len(dispatch_log) = 2
    /\ dispatch_log[1] = "MouseMove" /\ dispatch_log[2] = "KeyDown"
    /\ event_queue = <<"emit">>

\* C20: the flush loop has no cap: with a handler that enqueues on every
\* dispatch, a flush loop that has found an event never ends, so no later
\* stage runs and control does not return to the host.
C20_InsatiableHandlerStarvesLoop ==
    [][(pc = "flush" /\ event_queue # <<>>)
          => (pc' = "flush" /\ event_queue' # <<>>)]_vars

C20_Witness ==
    /\ pc = "flush" /\ event_queue # <<>> /\ Has("emit", dispatch_log)
    /\ handlers = "insatiable"

\* C21: an iteration that ends with the mode Wait ends with an empty Event
\* Queue, whatever the data propagation, the visual update or the idle hook
\* enqueued after the flush loop; the mode handed to the host is then Wait
\* with an empty queue, and nothing is queued while the host is blocked.
C21_WaitMeansQueueEmpty ==
    /\ (AtReturn /\ stored_control_flow = "Wait") => event_queue = <<>>
    /\ (Handed /\ control_flow = "Wait") => event_queue = <<>>
    /\ (pc = "host" /\ host = "blocked") => (control_flow = "Wait" /\ event_queue = <<>>)

C21_Witness ==
    /\ Handed /\ control_flow = "Wait" /\ event_queue = <<>>
    /\ iter.idle_calls = 1 /\ iter.flush_ret = FALSE /\ iter.prev = "Poll"

\* the loop has settled: control is with the host, the mode is Wait and the
\* queue is empty
Quiescent ==
    /\ pc = "host" /\ host \in {"redraw", "blocked"}
    /\ control_flow = "Wait" /\ event_queue = <<>>

\* C22: with the default Wait, once no animation is active and the
\* application code enqueues no further event, the loop reaches, from any
\* moment at which control is with the host, the end of an iteration with
\* the mode Wait and an empty queue, whatever is still queued or on its way
\* through the proxy (the unit wake-up event among it), as long as the host
\* has not been handed Exit (which ends the loop); and a flush_events call
\* leaves the stored mode as it is whatever it dispatches: dispatching the
\* unit wake-up event or the synthetic Redraw event stores no Poll.
C22_Quiescence ==
    /\ (~default_should_poll /\ animations = 0 /\ pc = "host" /\ ~host_exit)
          ~> Quiescent
    /\ [][FlushCall => stored_control_flow' = stored_control_flow]_vars

C22_Witness ==
    /\ handlers = "settling" /\ ~default_should_poll /\ animations = 0
    /\ pc = "host" /\ host = "events" /\ ~host_exit
    /\ control_flow = "Poll" /\ startup = "iterated"
    /\ Has("unit", proxy_channel) /\ event_queue # <<>>

\* C23: an iteration that ends with the mode Wait leaves no redraw
\* invalidation pending: needs_redraw is false when Wait is handed to the
\* host.
C23_NoPendingRedrawInWait ==
    (Handed /\ control_flow = "Wait") => ~needs_redraw

\* C24: the scale-factor arm replaces the scale factor, the root's cached
\* size (physical) and the root's style size (logical) and nothing else:
\* the three invalidation flags, the root's clip region, the Event Queue and
\* the continuation mode stay as they were.
C24_ScaleChangeFrame ==
    [][HostScaleFactorChanged =>
         /\ style_size' = to_logical(cache_size', dpi_factor')
         /\ UNCHANGED <<flags, clip_region, event_queue, stored_control_flow>>
         /\ control_flow' = stored_control_flow
         /\ UNCHANGED <<redraw_pending, animations, proxy_channel, pc>>]_vars

C24_Witness ==
    /\ clip_region # cache_size /\ dpi_factor = 2
    /\ style_size = to_logical(cache_size, dpi_factor) /\ style_size # to_logical(clip_region, 1)
    /\ ~needs_restyle /\ ~needs_relayout /\ ~needs_redraw

\* a host callback other than MainEventsCleared and the close request
OtherCallback ==
    \/ HostUserEvent \/ HostActionRequest \/ HostInput \/ HostResized
    \/ HostScaleFactorChanged \/ HostOther \/ HostRedrawRequested
    \/ HostRedrawEventsCleared

\* C25 as stated: a host callback other than MainEventsCleared and the close
\* request runs no stage, leaves the stored mode as it was and hands back
\* the mode the last iteration produced (the initial value before any).
C25_HandsBackIterationMode ==
    [][OtherCallback =>
         /\ pc' = "host" /\ iter' \in {iter, IterStart}
         /\ stored_control_flow' = stored_control_flow
         /\ control_flow' = iteration_mode]_vars

\* C25, corrected: a host callback other than MainEventsCleared and the close
\* request runs no stage, leaves the stored mode as it was and hands back
\* that stored mode, which is the mode the last iteration produced (the
\* initial value before any) unless a close request has been handled since;
\* then it is Exit.
C25_OtherCallbacksKeepMode ==
    [][OtherCallback =>
         /\ pc' = "host" /\ iter' \in {iter, IterStart}
         /\ stored_control_flow' = stored_control_flow
         /\ control_flow' = stored_control_flow
         /\ control_flow' = IF stored_control_flow = "Exit" THEN "Exit"
                            ELSE iteration_mode]_vars

C25_Witness ==
    /\ pc = "host" /\ host = "events" /\ startup = "iterated"
    /\ stored_control_flow = "Wait" /\ control_flow = "Wait"
    /\ iteration_mode = "Wait" /\ Has("KeyDown", event_queue)
====
